---- MODULE Spec2Model ----
(***************************************************************************)
(* Model of cpppo's Modbus/TCP polling engine, src/remote/plc_modbus.py:   *)
(* the range planner (shatter, merge), the poll worker poller_modbus.      *)
(* _poller, the synchronous writer poller_modbus.write/_write and the      *)
(* read path _read, sharing one transport under poller_modbus.lock.        *)
(*                                                                         *)
(* The base class cpppo.remote.plc.poller (its constructor, poll, write    *)
(* and _store) is not part of src/; the definitions that stand for it are  *)
(* written from the specification and say so.                              *)
(***************************************************************************)
EXTENDS Integers, Sequences, FiniteSets, TLC

(***************************************************************************)
(* Bounds of the model.                                                    *)
(***************************************************************************)
\* number of consumer threads that call write
NumWriters == 2
\* the engine's coalescing reach (constructor argument `reach`)
Reach == 2

Writers == 1..NumWriters

\* conventional addresses the consumers register with poll(): a coil and
\* a holding register
PollAddrs == {1, 40001}
\* addresses the consumers write: a coil (writable), an input register
\* (read-only) and an address in no band
WriteAddrs == {1, 30001, 20001}
\* values the consumers write
WriteValues == {1}
\* Python's None, for the attributes that hold None or a number that is
\* not negative: a poll period, a time, a duration
None == -1
\* the poll period the constructor gives `rate`, in seconds
Period == 5
\* poll periods a consumer may assign to `rate`; None is "paused"
Rates == {None, Period}

\* addresses of the simulated device and the values it holds at start
DevAddrs == {1, 2, 3, 40001}
DevInit == [a \in DevAddrs |-> IF a \in {2, 40001} THEN 1 ELSE 0]

VARIABLES
    done,       \* poller_modbus.done
    rate,       \* poller.rate: None (paused) or a period
    online,     \* poller.online
    data,       \* poller._data: address -> {} (never read yet) or {value}
    dev,        \* the device's registers: address -> value
    plcUp,      \* the device accepts connections and answers
    socket,     \* client.socket is open
    lock,       \* poller_modbus.lock: "free", or held by "poller" or "writer"
    pc,         \* the poll worker's position in _poller
    todo,       \* what is left of the cycle's merge(...) iteration
    succ,       \* _poller's local succ
    fail,       \* _poller's local fail
    polling,    \* _poller's local polling
    failing,    \* _poller's local failing
    wr,         \* each consumer thread's write call and its outcome
    call,       \* a direct call of a module function or of _read/_write
    ret,        \* what that call gave back: << >> (not yet) or <<result>>
    late,       \* _poller's now - target: how far past its target the
                \* time read at line 244 or 248 is (negative: before it)
    slipped,    \* _poller's local slipped
    logged,     \* the lines the worker's latest step wrote to the log
    exc,        \* what the range read of the worker's latest step raised
                \* ("none": it returned, or the step read no range)
    clock,      \* misc.timer(), in seconds
    _started,   \* client._started
    _timeout,   \* client._timeout
    waited      \* the time spent blocked in connect and _recv since the
                \* timeout was last set

\* the poll worker's timing and logging
locals == <<late, slipped, logged, exc>>
\* the transport's deadline
deadline == <<clock, _started, _timeout, waited>>

vars == <<done, rate, online, data, dev, plcUp, socket, lock, pc, todo,
          succ, fail, polling, failing, wr, call, ret,
          late, slipped, logged, exc, clock, _started, _timeout, waited>>

(***************************************************************************)
(* The range planner.                                                      *)
(***************************************************************************)
Min(a, b) == IF a <= b THEN a ELSE b

\* the limit of the bit kinds for every address
DefaultLimitBits(address) == 1968

\* shatter's default limit for the register kind of `address`
DefaultLimit(address) ==
    IF \/ (1 <= address /\ address <= 9999)
       \/ (10001 <= address /\ address <= 19999)
       \/ (100001 <= address /\ address <= 165536)
    THEN 1968
    ELSE 123

\* the loop of shatter without line 169 (address += taken)
RECURSIVE ShatterLoopSameAddress(_, _, _)
ShatterLoopSameAddress(address, count, limit) ==
    IF count = 0
    THEN <<>>
    ELSE LET taken == Min(count, IF limit # 0 THEN limit ELSE count)
         IN  <<<<address, taken>>>>
                 \o ShatterLoopSameAddress(address, count - taken, limit)

RECURSIVE ShatterLoop(_, _, _)
ShatterLoop(address, count, limit) ==
    IF count = 0
    THEN <<>>
    ELSE LET taken == Min(count, IF limit # 0 THEN limit ELSE count)
         IN  <<<<address, taken>>>>
                 \o ShatterLoop(address + taken, count - taken, limit)

\* shatter( address, count, limit ); limit 0 stands for None (both are
\* "not limit")
shatter(address, count, limit) ==
    ShatterLoop(address, count,
                IF limit = 0 THEN DefaultLimit(address) ELSE limit)

\* tuple order of Python's sorted() on (address, count) pairs
RangeLess(r, s) == r[1] < s[1] \/ (r[1] = s[1] /\ r[2] < s[2])

RECURSIVE InsertSorted(_, _)
InsertSorted(r, s) ==
    IF s = <<>> THEN <<r>>
    ELSE IF RangeLess(Head(s), r)
         THEN <<Head(s)>> \o InsertSorted(r, Tail(s))
         ELSE <<r>> \o s

RECURSIVE sorted(_)
sorted(s) == IF s = <<>> THEN <<>> ELSE InsertSorted(Head(s), sorted(Tail(s)))

\* the loop of merge with line 184 leaving the reach out
RECURSIVE MergeLoopNoReach(_, _, _, _, _)
MergeLoopNoReach(input, base, length, reach, limit) ==
    IF input = <<>>
    THEN shatter(base, length, limit)
    ELSE LET address == Head(input)[1]
             count   == Head(input)[2]
         IN  IF /\ length # 0
                /\ address \div 10000 = base \div 10000
                /\ address < base + length + 1
             THEN MergeLoopNoReach(Tail(input), base, address + count - base,
                                   reach, limit)
             ELSE (IF length # 0 THEN shatter(base, length, limit) ELSE <<>>)
                      \o MergeLoopNoReach(Tail(input), address, count,
                                          reach, limit)

\* the loop of merge without the test of line 183 for a 10000 boundary
RECURSIVE MergeLoopNoBoundary(_, _, _, _, _)
MergeLoopNoBoundary(input, base, length, reach, limit) ==
    IF input = <<>>
    THEN shatter(base, length, limit)
    ELSE LET address == Head(input)[1]
             count   == Head(input)[2]
         IN  IF /\ length # 0
                /\ address < base + length + (IF reach # 0 THEN reach ELSE 1)
             THEN MergeLoopNoBoundary(Tail(input), base,
                                      address + count - base, reach, limit)
             ELSE (IF length # 0 THEN shatter(base, length, limit) ELSE <<>>)
                      \o MergeLoopNoBoundary(Tail(input), address, count,
                                             reach, limit)

\* the loop of merge with line 187 taking the merged range's count for
\* the new length
RECURSIVE MergeLoopCountAsLength(_, _, _, _, _)
MergeLoopCountAsLength(input, base, length, reach, limit) ==
    IF input = <<>>
    THEN shatter(base, length, limit)
    ELSE LET address == Head(input)[1]
             count   == Head(input)[2]
         IN  IF /\ length # 0
                /\ address \div 10000 = base \div 10000
                /\ address < base + length + (IF reach # 0 THEN reach ELSE 1)
             THEN MergeLoopCountAsLength(Tail(input), base, count,
                                         reach, limit)
             ELSE (IF length # 0 THEN shatter(base, length, limit) ELSE <<>>)
                      \o MergeLoopCountAsLength(Tail(input), address, count,
                                                reach, limit)

RECURSIVE MergeLoop(_, _, _, _, _)
MergeLoop(input, base, length, reach, limit) ==
    IF input = <<>>
    THEN shatter(base, length, limit)
    ELSE LET address == Head(input)[1]
             count   == Head(input)[2]
         IN  IF /\ length # 0
                /\ address \div 10000 = base \div 10000
                /\ address < base + length + (IF reach # 0 THEN reach ELSE 1)
             THEN MergeLoop(Tail(input), base, address + count - base,
                            reach, limit)
             ELSE (IF length # 0 THEN shatter(base, length, limit) ELSE <<>>)
                      \o MergeLoop(Tail(input), address, count, reach, limit)

\* a merge that yields the range (0, 1) when it is given nothing
mergeOfNothing(ranges, reach, limit) ==
    LET input == sorted(ranges)
    IN  IF input = <<>>
        THEN <<<<0, 1>>>>
        ELSE MergeLoop(Tail(input), Head(input)[1], Head(input)[2],
                       reach, limit)

\* merge( ranges, reach, limit ): an empty input ends the generator at
\* next( input ) (StopIteration inside a Python 2 generator)
merge(ranges, reach, limit) ==
    LET input == sorted(ranges)
    IN  IF input = <<>>
        THEN <<>>
        ELSE MergeLoop(Tail(input), Head(input)[1], Head(input)[2],
                       reach, limit)

\* [ (a,1) for a in self._data ]: the keys in some order
RECURSIVE KeyRanges(_)
KeyRanges(keys) ==
    IF keys = {} THEN <<>>
    ELSE LET a == CHOOSE x \in keys : TRUE
         IN  <<<<a, 1>>>> \o KeyRanges(keys \ {a})

\* lines 271-272: merge( [ (a,1) for a in self._data ], reach=self.reach ),
\* with no limit
PlanRanges(keys, reach) == merge(KeyRanges(keys), reach, 0)

\* the addresses of a range
Span(r) == r[1] .. (r[1] + r[2] - 1)


(***************************************************************************)
(* The address classifier of the read and write paths.                     *)
(***************************************************************************)
\* the request classes pymodbus defines (imported at lines 50-53)
PymodbusRequests ==
    {"ReadCoilsRequest", "ReadDiscreteInputsRequest",
     "ReadHoldingRegistersRequest", "ReadInputRegistersRequest",
     "WriteSingleCoilRequest", "WriteMultipleCoilsRequest",
     "WriteSingleRegisterRequest", "WriteMultipleRegistersRequest"}

\* the name _read evaluates as its reader for a conventional address, as
\* the source spells it; "none" when no band matches
Reader(address) ==
    IF 400001 <= address /\ address <= 465536 THEN "ReadHoldingRegisterRequest"
    ELSE IF 300001 <= address /\ address <= 365536 THEN "ReadInputRegisterRequest"
    ELSE IF 100001 <= address /\ address <= 165536 THEN "ReadDiscreteInputsRequest"
    ELSE IF 40001 <= address /\ address <= 99999 THEN "ReadHoldingRegistersRequest"
    ELSE IF 30001 <= address /\ address <= 39999 THEN "ReadInputRegisterRequest"
    ELSE IF 10001 <= address /\ address <= 19999 THEN "ReadDiscreteInputsRequest"
    ELSE IF 1 <= address /\ address <= 9999 THEN "ReadCoilsRequest"
    ELSE "none"

\* _write's writer for a conventional address, "none" when not writable
Writer(address, multi) ==
    IF 400001 <= address /\ address <= 465536
    THEN (IF multi THEN "WriteMultipleRegistersRequest"
                   ELSE "WriteSingleRegisterRequest")
    ELSE IF 40001 <= address /\ address <= 99999
    THEN (IF multi THEN "WriteMultipleRegistersRequest"
                   ELSE "WriteSingleRegisterRequest")
    ELSE IF 1 <= address /\ address <= 9999
    THEN (IF multi THEN "WriteMultipleCoilsRequest"
                   ELSE "WriteSingleCoilRequest")
    ELSE "none"

\* the zero-based address _read puts in the request (lines 380-400)
ReadOffset(address) ==
    IF 400001 <= address /\ address <= 465536 THEN address - 400001
    ELSE IF 300001 <= address /\ address <= 365536 THEN address - 300001
    ELSE IF 100001 <= address /\ address <= 165536 THEN address - 100001
    ELSE IF 40001 <= address /\ address <= 99999 THEN address - 40001
    ELSE IF 30001 <= address /\ address <= 39999 THEN address - 30001
    ELSE IF 10001 <= address /\ address <= 19999 THEN address - 10001
    ELSE IF 1 <= address /\ address <= 9999 THEN address - 1
    ELSE address

\* both holding-register bands counted from 40001
WriteOffsetOneBand(address) ==
    IF 40001 <= address /\ address <= 465536 THEN address - 40001
    ELSE IF 1 <= address /\ address <= 9999 THEN address - 1
    ELSE address

\* the zero-based address _write puts in the request (lines 336-350)
WriteOffset(address) ==
    IF 400001 <= address /\ address <= 465536 THEN address - 400001
    ELSE IF 40001 <= address /\ address <= 99999 THEN address - 40001
    ELSE IF 1 <= address /\ address <= 9999 THEN address - 1
    ELSE address

\* A Python value given to write: <<"int", <<v>>>> is the number v,
\* <<"list", <<v1, ...>>>> and <<"tuple", <<v1, ...>>>> are sequences.
\* line 334: multi = isinstance( value, (list,tuple) )
IsMulti(value) == value[1] \in {"list", "tuple"}

\* no request was built
NoRequest == [fn |-> "none", address |-> 0]

\* line 407: reader( address, count )
ReadRequest(address, count) ==
    [fn |-> Reader(address), address |-> ReadOffset(address), count |-> count]

\* line 360: writer( address, value )
WriteRequest(address, value) ==
    [fn |-> Writer(address, IsMulti(value)), address |-> WriteOffset(address),
     value |-> value]

(***************************************************************************)
(* The transport and the device.                                           *)
(***************************************************************************)
\* client.connect(): an open socket is kept; otherwise a connection is made
\* if the device accepts one; the result is whether a socket is open
Connect(sock, up) == sock \/ up

\* What client.execute( request ) can come back with for a request on the
\* addresses of r: "resp" a ModbusResponse, "exc" an ExceptionResponse,
\* "timeout" _recv's receive timeout (ConnectionException), "other"
\* something that is no ModbusResponse.  A device that is down answers
\* nothing; a device that is up rejects addresses it does not have.
Replies(up, r) ==
    IF ~up THEN {"timeout", "other"}
    ELSE IF Span(r) \subseteq DevAddrs
         THEN {"resp", "exc", "timeout", "other"}
         ELSE {"exc", "timeout", "other"}

\* the socket after execute: _recv closes it on a receive timeout
AfterExecute(reply) == reply # "timeout"

(***************************************************************************)
(* The transport's deadline, ModbusTcpClientTimeout.timeout.  Times and    *)
(* durations are whole seconds.                                            *)
(***************************************************************************)
\* pymodbus's Defaults.Timeout
DefaultsTimeout == 3

\* the tests of lines 101 and 107 on the value given to the setter: it is
\* None, it is True, it equals 0 (numbers and booleans compare by their
\* value, so False equals 0 too)
IsNone(v) == v[1] = "none"
IsTrue(v) == v[1] = "bool" /\ v[2][1] = 1
EqualsZero(v) == v[1] # "none" /\ v[2][1] = 0

\* line 83: self._timeout in (None, True), for the None or number that
\* _timeout holds; `in` tests equality, and 1 equals True
InNoneTrue(x) == x = None \/ x = 1

\* lines 93-108, the setter at time t: what _started and _timeout become
TimeoutSetter(timeout, t) ==
    IF IsNone(timeout)
    THEN [started |-> None, timeout |-> None]
    ELSE [started |-> t,
          timeout |-> IF IsTrue(timeout) \/ EqualsZero(timeout)
                      THEN DefaultsTimeout
                      ELSE timeout[2][1]]

\* lines 80-92, the getter at time t: the time that remains
TimeoutGetter(started, timeout, t) ==
    IF InNoneTrue(timeout) THEN DefaultsTimeout
    ELSE IF started + timeout > t THEN started + timeout - t
    ELSE 0

\* line 135: the argument of the exception is evaluated first, and
\* self.__str_() names an attribute the client does not have
RecvNoSocket == "AttributeError"

\* the cell of the device a request's function and zero-based address
\* name, by its conventional address
DeviceAddress(fn, offset) ==
    CASE fn \in {"ReadCoilsRequest", "WriteSingleCoilRequest",
                 "WriteMultipleCoilsRequest"}          -> offset + 1
      [] fn = "ReadDiscreteInputsRequest"              -> offset + 10001
      [] fn = "ReadInputRegistersRequest"              -> offset + 30001
      [] OTHER                                         -> offset + 40001

\* only the first value is ever returned
ReadValueFirstOnly(values) == <<"int", <<values[1]>>>>

\* lines 415-416: the response's bits or registers; one value is returned
\* as a number, more than one as the list
ReadValue(values) ==
    IF Len(values) > 1 THEN <<"list", values>> ELSE <<"int", <<values[1]>>>>

\* nothing was returned
NoValue == <<"none", << >>>>

\* _read( address, count ) from a socket state, for one reply of execute:
\* what it raises ("none": it returns), the socket it leaves, the request
\* it gave to execute and the value it returns
ReadResult(sock, up, r, reply) ==
    IF ~Connect(sock, up)
    THEN [raised |-> "PlcOffline", sock |-> FALSE, sent |-> FALSE,
          request |-> NoRequest, value |-> NoValue]
    ELSE IF Reader(r[1]) = "none"
    THEN [raised |-> "ParameterException", sock |-> TRUE, sent |-> FALSE,
          request |-> NoRequest, value |-> NoValue]
    ELSE IF Reader(r[1]) \notin PymodbusRequests
    THEN [raised |-> "NameError", sock |-> TRUE, sent |-> FALSE,
          request |-> NoRequest, value |-> NoValue]
    ELSE LET request == ReadRequest(r[1], r[2])
         IN  [raised |-> CASE reply = "resp"    -> "none"
                           [] reply = "exc"     -> "ModbusException"
                           [] reply = "timeout" -> "ConnectionException"
                           [] OTHER             -> "AssertionError",
              sock    |-> AfterExecute(reply),
              sent    |-> TRUE,
              request |-> request,
              value   |-> IF reply = "resp"
                          THEN ReadValue(
                                 [i \in 1..request.count |->
                                    dev[DeviceAddress(request.fn,
                                            request.address + i - 1)]])
                          ELSE NoValue]

\* _write without the test of lines 361-362 for an ExceptionResponse
WriteResultNoExceptionTest(sock, up, address, value, reply) ==
    IF ~Connect(sock, up)
    THEN [raised |-> "PlcOffline", sock |-> FALSE, sent |-> FALSE,
          request |-> NoRequest]
    ELSE IF Writer(address, IsMulti(value)) = "none"
    THEN [raised |-> "ParameterException", sock |-> TRUE, sent |-> FALSE,
          request |-> NoRequest]
    ELSE [raised  |-> CASE reply = "resp"    -> "none"
                        [] reply = "exc"     -> "none"
                        [] reply = "timeout" -> "ConnectionException"
                        [] OTHER             -> "AssertionError",
          sock    |-> AfterExecute(reply),
          sent    |-> TRUE,
          request |-> WriteRequest(address, value)]

\* _write( address, value ) from a socket state, for one reply of execute
WriteResult(sock, up, address, value, reply) ==
    IF ~Connect(sock, up)
    THEN [raised |-> "PlcOffline", sock |-> FALSE, sent |-> FALSE,
          request |-> NoRequest]
    ELSE IF Writer(address, IsMulti(value)) = "none"
    THEN [raised |-> "ParameterException", sock |-> TRUE, sent |-> FALSE,
          request |-> NoRequest]
    ELSE [raised  |-> CASE reply = "resp"    -> "none"
                        [] reply = "exc"     -> "ModbusException"
                        [] reply = "timeout" -> "ConnectionException"
                        [] OTHER             -> "AssertionError",
          sock    |-> AfterExecute(reply),
          sent    |-> TRUE,
          request |-> WriteRequest(address, value)]

\* the exceptions _poller's first handler takes (pymodbus ModbusException
\* and its subclasses); every other one goes to the second handler
IsModbusException(raised) ==
    raised \in {"ModbusException", "ParameterException", "ConnectionException"}

\* poller._store( address, value ), value a number or a list: the cells of
\* the registered addresses among address, address+1, ... take the values
Store(cache, address, value) ==
    [a \in DOMAIN cache |->
        IF address <= a /\ a < address + Len(value[2])
        THEN {value[2][a - address + 1]}
        ELSE cache[a]]

\* the device after a write request it accepted: one cell takes a single
\* value, consecutive cells take the values of a multiple write
DeviceWrite(device, request) ==
    LET first == DeviceAddress(request.fn, request.address)
        values == request.value[2]
    IN  [a \in DOMAIN device |->
            IF first <= a /\ a < first + Len(values)
            THEN values[a - first + 1]
            ELSE device[a]]


(***************************************************************************)
(* The engine after construction.  The worker thread is started at the top *)
(* of _poller's loop with empty polling and failing sets; nothing is       *)
(* registered; no socket is open.  The base class sets rate and online;    *)
(* either value of each is allowed for.                                    *)
(***************************************************************************)
\* the value True
True == <<"bool", <<1>>>>

\* no direct call is in progress
NoCall ==
    [fn |-> "none", address |-> 0, count |-> 0, value |-> << >>,
     ranges |-> << >>, keys |-> {}, reach |-> 0, limit |-> 0]

IdleWrite ==
    [pc |-> "idle", addr |-> 0, val |-> 0, during |-> FALSE,
     conn |-> FALSE, reply |-> "none", sent |-> FALSE, res |-> "none"]

EngineInit ==
    /\ done = FALSE
    /\ rate \in Rates
    /\ online \in BOOLEAN
    /\ data = << >>
    /\ dev = DevInit
    /\ plcUp \in BOOLEAN
    /\ socket = FALSE
    /\ lock = "free"
    /\ pc = "top"
    /\ todo = << >>
    /\ succ = {}
    /\ fail = {}
    /\ polling = {}
    /\ failing = {}
    /\ wr = [w \in Writers |-> IdleWrite]
    /\ late = 0
    /\ slipped = 0
    /\ logged = {}
    /\ exc = "none"
    /\ clock = 0
    /\ _started = None
    /\ _timeout = None
    /\ waited = 0

Init ==
    /\ EngineInit
    /\ call = NoCall
    /\ ret = << >>

(***************************************************************************)
(* The consumer's side: the flags, poll and the device's availability.     *)
(***************************************************************************)
\* a consumer assigns engine.rate
SetRate(r) ==
    /\ rate # r
    /\ rate' = r
    /\ UNCHANGED <<call, ret>>
    /\ UNCHANGED locals
    /\ UNCHANGED deadline
    /\ UNCHANGED <<done, online, data, dev, plcUp, socket, lock, pc, todo,
                   succ, fail, polling, failing, wr>>

\* a consumer assigns engine.done = True
SetDone ==
    /\ ~done
    /\ done' = TRUE
    /\ UNCHANGED <<call, ret>>
    /\ UNCHANGED locals
    /\ UNCHANGED deadline
    /\ UNCHANGED <<rate, online, data, dev, plcUp, socket, lock, pc, todo,
                   succ, fail, polling, failing, wr>>

\* poll( a ): register interest in address a with a cell that holds no value
Poll(a) ==
    /\ a \notin DOMAIN data
    /\ data' = [x \in DOMAIN data \cup {a} |->
                   IF x \in DOMAIN data THEN data[x] ELSE {}]
    /\ UNCHANGED <<call, ret>>
    /\ UNCHANGED locals
    /\ UNCHANGED deadline
    /\ UNCHANGED <<done, rate, online, dev, plcUp, socket, lock, pc, todo,
                   succ, fail, polling, failing, wr>>

\* the device goes down or comes back
PlcToggle ==
    /\ plcUp' = ~plcUp
    /\ UNCHANGED <<call, ret>>
    /\ UNCHANGED locals
    /\ UNCHANGED deadline
    /\ UNCHANGED <<done, rate, online, data, dev, socket, lock, pc, todo,
                   succ, fail, polling, failing, wr>>

(***************************************************************************)
(* The poll worker, poller_modbus._poller.                                 *)
(***************************************************************************)
\* the loop without the test of line 240
AfterLoopTopNoPause(d, r) == IF d THEN "exited" ELSE "slip"

\* where the worker goes from the top of the loop: out of it when done
\* (line 239), to the short sleep when paused (line 240), else on to the
\* poll (lines 245-248, the wait for the target time)
AfterLoopTop(d, r) ==
    IF d THEN "exited"
    ELSE IF r = None THEN "sleep"
    ELSE "slip"

\* lines 244-248: now - target once the wait for the target is over, when
\* the time is read e seconds after it was last read: a worker that is
\* early sleeps until the target
AfterWait(l, e) == IF l + e < 0 THEN 0 ELSE l + e

\* line 239: while not self.done; lines 240-248: paused, or wait for
\* target; the worker comes here e seconds after it last read the time
Wake(e) ==
    /\ pc = "top"
    /\ pc' = AfterLoopTop(done, rate)
    /\ late' = IF pc' = "slip" THEN AfterWait(late, e) ELSE late
    /\ logged' = {}
    /\ exc' = "none"
    /\ UNCHANGED slipped
    /\ UNCHANGED <<call, ret>>
    /\ UNCHANGED deadline
    /\ UNCHANGED <<done, rate, online, data, dev, plcUp, socket, lock, todo,
                   succ, fail, polling, failing, wr>>

\* the same for a worker whose cycles take no time: it is never late
LoopTop ==
    /\ pc = "top"
    /\ pc' = AfterLoopTop(done, rate)
    /\ late' = IF pc' = "slip" THEN AfterWait(late, 0) ELSE late
    /\ logged' = {}
    /\ exc' = "none"
    /\ UNCHANGED slipped
    /\ UNCHANGED <<call, ret>>
    /\ UNCHANGED deadline
    /\ UNCHANGED <<done, rate, online, data, dev, plcUp, socket, lock, todo,
                   succ, fail, polling, failing, wr>>

\* lines 241-242: time.sleep( .1 ); continue
PausedSleep ==
    /\ pc = "sleep"
    /\ pc' = "top"
    /\ logged' = {}
    /\ exc' = "none"
    /\ UNCHANGED <<late, slipped>>
    /\ UNCHANGED <<call, ret>>
    /\ UNCHANGED deadline
    /\ UNCHANGED <<done, rate, online, data, dev, plcUp, socket, lock, todo,
                   succ, fail, polling, failing, wr>>

\* a line of the log: its kind and the range, or the number, it names
LogLine(kind, what) == <<kind, what>>

\* line 251: int( n / d ), d > 0: int truncates towards zero
int(n, d) == IF n >= 0 THEN n \div d ELSE 0 - ((0 - n) \div d)

\* lines 251-253: slipped is computed from self.rate as it is now, and a
\* slip is logged; dividing by None raises TypeError out of _poller
Slip ==
    /\ pc = "slip"
    /\ IF rate = None
       THEN /\ pc' = "crashed"
            /\ logged' = {}
            /\ UNCHANGED slipped
       ELSE /\ pc' = "advance"
            /\ slipped' = int(late, rate)
            /\ logged' = IF slipped' # 0
                         THEN {LogLine("slipped", <<slipped'>>)}
                         ELSE {}
    /\ exc' = "none"
    /\ UNCHANGED late
    /\ UNCHANGED <<call, ret>>
    /\ UNCHANGED deadline
    /\ UNCHANGED <<done, rate, online, data, dev, plcUp, socket, lock, todo,
                   succ, fail, polling, failing, wr>>

\* line 254, target += self.rate * ( slipped + 1 ): what now - target
\* becomes for the rate r read on this line
NewTarget(l, r, n) == l - r * (n + 1)

\* line 254: the target moves on by self.rate as it is now; multiplying
\* None raises TypeError out of _poller
Advance ==
    /\ pc = "advance"
    /\ IF rate = None
       THEN /\ pc' = "crashed"
            /\ UNCHANGED late
       ELSE /\ pc' = "plan"
            /\ late' = NewTarget(late, rate, slipped)
    /\ logged' = {}
    /\ exc' = "none"
    /\ UNCHANGED slipped
    /\ UNCHANGED <<call, ret>>
    /\ UNCHANGED deadline
    /\ UNCHANGED <<done, rate, online, data, dev, plcUp, socket, lock, todo,
                   succ, fail, polling, failing, wr>>

\* lines 269-272: succ and fail are emptied and merge sorts the keys of
\* _data as they are now
Plan ==
    /\ pc = "plan"
    /\ succ' = {}
    /\ fail' = {}
    /\ todo' = PlanRanges(DOMAIN data, Reach)
    /\ pc' = IF todo' = << >> THEN "finish" ELSE "acquire"
    /\ logged' = {}
    /\ exc' = "none"
    /\ UNCHANGED <<late, slipped>>
    /\ UNCHANGED <<call, ret>>
    /\ UNCHANGED deadline
    /\ UNCHANGED <<done, rate, online, data, dev, plcUp, socket, lock,
                   polling, failing, wr>>

\* a with block that lets go of the lock only when its body returns
ReleaseOnReturn(holder, raised) ==
    IF raised = "none" THEN "free" ELSE holder

\* lines 273 and 316, the end of `with self.lock`: the lock is released
\* whether the body returned or raised
Release(holder, raised) == "free"

\* line 273: with self.lock
PollerAcquire ==
    /\ pc = "acquire"
    /\ lock = "free"
    /\ lock' = "poller"
    /\ pc' = "read"
    /\ logged' = {}
    /\ exc' = "none"
    /\ UNCHANGED <<late, slipped>>
    /\ UNCHANGED <<call, ret>>
    /\ UNCHANGED deadline
    /\ UNCHANGED <<done, rate, online, data, dev, plcUp, socket, todo,
                   succ, fail, polling, failing, wr>>

\* a for loop that tests self.done after each range
AfterRangeTestingDone(rest) ==
    IF done THEN "exited"
    ELSE IF rest = << >> THEN "finish" ELSE "acquire"

\* where the worker goes after the body of the for loop
AfterRange(rest) == IF rest = << >> THEN "finish" ELSE "acquire"

\* lines 279-280 left out
OnlineAfterReadKept(on) == on

\* lines 279-280: if not self.online: self.online = True
OnlineAfterRead(on) == IF ~on THEN TRUE ELSE on

\* the second handler taken out: only a ModbusException is caught
HandlerModbusOnly(raised) ==
    IF raised = "none" THEN "else"
    ELSE IF IsModbusException(raised) THEN "except ModbusException"
    ELSE "uncaught"

\* which arm of the try statement of lines 274-298 ends the body: "else"
\* when _read returned, the first handler for a ModbusException, the second
\* for any other Exception
Handler(raised) ==
    IF raised = "none" THEN "else"
    ELSE IF IsModbusException(raised) THEN "except ModbusException"
    ELSE "except Exception"

\* every failure is logged
FailingLoggedAlways(arm, r, known) == {LogLine("Failing", r)}

\* lines 287-298: the warning of the handler that caught the failure of
\* range r, in a cycle that follows one in which the ranges of `known`
\* failed: the first handler logs a range that was not failing, the
\* second every time
FailingLogged(arm, r, known) ==
    IF arm = "except ModbusException"
    THEN IF r \notin known THEN {LogLine("Failing", r)} ELSE {}
    ELSE {LogLine("Failing", r)}

\* lines 279-284: a read that succeeded is logged when it takes the engine
\* online, and when its range was not polling
SuccessLogged(on, r, polled) ==
    (IF ~on THEN {LogLine("online", << >>)} ELSE {})
    \cup (IF r \notin polled THEN {LogLine("Polling", r)} ELSE {})

\* a range read that empties the cells of a range that failed
PollerReadForgetting ==
    /\ pc = "read"
    /\ \E reply \in Replies(plcUp, Head(todo)) :
          LET r   == Head(todo)
              res == ReadResult(socket, plcUp, r, reply)
              arm == Handler(res.raised)
          IN  /\ socket' = res.sock
              /\ lock' = Release(lock, res.raised)
              /\ exc' = res.raised
              /\ IF arm = "else"
                 THEN /\ online' = OnlineAfterRead(online)
                      /\ logged' = SuccessLogged(online, r, polling)
                      /\ succ' = succ \cup {r}
                      /\ data' = Store(data, r[1], res.value)
                      /\ fail' = fail
                      /\ pc' = AfterRange(Tail(todo))
                 ELSE IF arm \in {"except ModbusException", "except Exception"}
                 THEN /\ fail' = fail \cup {r}
                      /\ logged' = FailingLogged(arm, r, failing)
                      /\ pc' = AfterRange(Tail(todo))
                      /\ data' = [a \in DOMAIN data |->
                                     IF a \in Span(r) THEN {} ELSE data[a]]
                      /\ UNCHANGED <<online, succ>>
                 ELSE \* no handler: the exception leaves _poller
                      /\ pc' = "crashed"
                      /\ logged' = {}
                      /\ UNCHANGED <<online, succ, data, fail>>
    /\ todo' = Tail(todo)
    /\ UNCHANGED <<late, slipped>>
    /\ UNCHANGED <<call, ret>>
    /\ _started' = TimeoutSetter(True, clock).started
    /\ _timeout' = TimeoutSetter(True, clock).timeout
    /\ waited' = 0
    /\ UNCHANGED clock
    /\ UNCHANGED <<done, rate, dev, plcUp, polling, failing, wr>>

\* lines 274-298 and the end of the with block: one range is read, the
\* outcome handled, the lock released
PollerRead ==
    /\ pc = "read"
    /\ \E reply \in Replies(plcUp, Head(todo)) :
          LET r   == Head(todo)
              res == ReadResult(socket, plcUp, r, reply)
              arm == Handler(res.raised)
          IN  /\ socket' = res.sock
              /\ lock' = Release(lock, res.raised)
              /\ exc' = res.raised
              /\ IF arm = "else"
                 THEN /\ online' = OnlineAfterRead(online)
                      /\ logged' = SuccessLogged(online, r, polling)
                      /\ succ' = succ \cup {r}
                      /\ data' = Store(data, r[1], res.value)
                      /\ fail' = fail
                      /\ pc' = AfterRange(Tail(todo))
                 ELSE IF arm \in {"except ModbusException", "except Exception"}
                 THEN /\ fail' = fail \cup {r}
                      /\ logged' = FailingLogged(arm, r, failing)
                      /\ pc' = AfterRange(Tail(todo))
                      /\ UNCHANGED <<online, succ, data>>
                 ELSE \* no handler: the exception leaves _poller
                      /\ pc' = "crashed"
                      /\ logged' = {}
                      /\ UNCHANGED <<online, succ, data, fail>>
    /\ todo' = Tail(todo)
    /\ UNCHANGED <<late, slipped>>
    /\ UNCHANGED <<call, ret>>
    /\ _started' = TimeoutSetter(True, clock).started
    /\ _timeout' = TimeoutSetter(True, clock).timeout
    /\ waited' = 0
    /\ UNCHANGED clock
    /\ UNCHANGED <<done, rate, dev, plcUp, polling, failing, wr>>

\* line 310 with `not polling` turned into `polling`
GoesOfflineInverted(cache, polled, on) ==
    DOMAIN cache # {} /\ polled # {} /\ on

\* line 310 without its test of self._data
GoesOfflineAnyCache(cache, polled, on) ==
    polled = {} /\ on

\* line 310: self._data and not polling and self.online
GoesOffline(cache, polled, on) ==
    DOMAIN cache # {} /\ polled = {} /\ on

\* every range that was polling and was not read is reported
CeasingNotRead(polled, read, failed) == polled \ read

\* line 302: ceasing = polling - succ - fail
Ceasing(polled, read, failed) == (polled \ read) \ failed

\* lines 302-312: the ranges that ceased are logged, polling and failing
\* take this cycle's sets, and the engine goes offline, logging it, if it
\* has addresses and none was read
Finish ==
    /\ pc = "finish"
    /\ polling' = succ
    /\ failing' = fail
    /\ online' = IF GoesOffline(data, polling', online)
                 THEN FALSE
                 ELSE online
    /\ logged' = {LogLine("Ceasing", r) : r \in Ceasing(polling, succ, fail)}
                 \cup (IF GoesOffline(data, polling', online)
                       THEN {LogLine("offline", << >>)}
                       ELSE {})
    /\ pc' = "top"
    /\ exc' = "none"
    /\ UNCHANGED <<late, slipped>>
    /\ UNCHANGED <<call, ret>>
    /\ UNCHANGED deadline
    /\ UNCHANGED <<done, rate, data, dev, plcUp, socket, lock, todo,
                   succ, fail, wr>>

Poller ==
    \/ LoopTop
    \/ PausedSleep
    \/ Slip
    \/ Advance
    \/ Plan
    \/ PollerAcquire
    \/ PollerRead
    \/ Finish

(***************************************************************************)
(* The writer, poller_modbus.write and _write.                             *)
(***************************************************************************)
\* a write that does not take the lock (line 316 left out)
WriteCallUnlocked(w, a, v) ==
    /\ wr[w].pc = "idle"
    /\ lock' = "writer"
    /\ wr' = [wr EXCEPT ![w] = [IdleWrite EXCEPT !.pc = "txn", !.addr = a]]
    /\ UNCHANGED <<call, ret>>
    /\ UNCHANGED locals
    /\ UNCHANGED deadline
    /\ UNCHANGED <<done, rate, online, data, dev, plcUp, socket, pc, todo,
                   succ, fail, polling, failing>>

\* line 316, entered: write( a, v ) takes the lock if it is free and
\* otherwise blocks on it
WriteCall(w, a, v) ==
    /\ wr[w].pc = "idle"
    /\ IF lock = "free"
       THEN /\ lock' = "writer"
            /\ wr' = [wr EXCEPT ![w] =
                        [IdleWrite EXCEPT !.pc = "txn", !.addr = a, !.val = v]]
       ELSE /\ lock' = lock
            /\ wr' = [wr EXCEPT ![w] =
                        [IdleWrite EXCEPT !.pc = "blocked", !.addr = a,
                                          !.val = v,
                                          !.during = (lock = "poller")]]
    /\ UNCHANGED <<call, ret>>
    /\ UNCHANGED locals
    /\ UNCHANGED deadline
    /\ UNCHANGED <<done, rate, online, data, dev, plcUp, socket, pc, todo,
                   succ, fail, polling, failing>>

\* line 316, resumed: a blocked write is given the lock
WriteAcquire(w) ==
    /\ wr[w].pc = "blocked"
    /\ lock = "free"
    /\ lock' = "writer"
    /\ wr' = [wr EXCEPT ![w].pc = "txn", ![w].during = FALSE]
    /\ UNCHANGED <<call, ret>>
    /\ UNCHANGED locals
    /\ UNCHANGED deadline
    /\ UNCHANGED <<done, rate, online, data, dev, plcUp, socket, pc, todo,
                   succ, fail, polling, failing>>

\* a write that stores the value it wrote in the cache when it succeeds
WriteTxnStoring(w) ==
    /\ wr[w].pc = "txn"
    /\ \E reply \in Replies(plcUp, <<wr[w].addr, 1>>) :
          LET res == WriteResult(socket, plcUp, wr[w].addr,
                                 <<"int", <<wr[w].val>>>>, reply)
          IN  /\ socket' = res.sock
              /\ lock' = Release(lock, res.raised)
              /\ dev' = IF res.raised = "none"
                        THEN DeviceWrite(dev, res.request)
                        ELSE dev
              /\ data' = IF res.raised = "none"
                         THEN Store(data, wr[w].addr, <<"int", <<wr[w].val>>>>)
                         ELSE data
              /\ wr' = [wr EXCEPT ![w] =
                          [@ EXCEPT !.pc = "idle",
                                    !.during = FALSE,
                                    !.conn = Connect(socket, plcUp),
                                    !.sent = res.sent,
                                    !.reply = IF res.sent THEN reply
                                              ELSE "none",
                                    !.res = IF res.raised = "none"
                                            THEN "returned"
                                            ELSE res.raised]]
    /\ UNCHANGED <<call, ret>>
    /\ UNCHANGED locals
    /\ _started' = TimeoutSetter(True, clock).started
    /\ _timeout' = TimeoutSetter(True, clock).timeout
    /\ waited' = 0
    /\ UNCHANGED clock
    /\ UNCHANGED <<done, rate, online, plcUp, pc, todo,
                   succ, fail, polling, failing>>

\* lines 317-363 and the end of the with block: the base class's write
\* calls _write; the lock is released however _write ends
WriteTxn(w) ==
    /\ wr[w].pc = "txn"
    /\ \E reply \in Replies(plcUp, <<wr[w].addr, 1>>) :
          LET res == WriteResult(socket, plcUp, wr[w].addr,
                                 <<"int", <<wr[w].val>>>>, reply)
          IN  /\ socket' = res.sock
              /\ lock' = Release(lock, res.raised)
              /\ dev' = IF res.raised = "none"
                        THEN DeviceWrite(dev, res.request)
                        ELSE dev
              /\ wr' = [wr EXCEPT ![w] =
                          [@ EXCEPT !.pc = "idle",
                                    !.during = FALSE,
                                    !.conn = Connect(socket, plcUp),
                                    !.sent = res.sent,
                                    !.reply = IF res.sent THEN reply
                                              ELSE "none",
                                    !.res = IF res.raised = "none"
                                            THEN "returned"
                                            ELSE res.raised]]
    /\ UNCHANGED <<call, ret>>
    /\ UNCHANGED locals
    /\ _started' = TimeoutSetter(True, clock).started
    /\ _timeout' = TimeoutSetter(True, clock).timeout
    /\ waited' = 0
    /\ UNCHANGED clock
    /\ UNCHANGED <<done, rate, online, data, plcUp, pc, todo,
                   succ, fail, polling, failing>>

\* Spec: the engine with every flag, poll and device event, and one
\* consumer thread writing to each kind of address
Next ==
    \/ \E r \in Rates : SetRate(r)
    \/ SetDone
    \/ \E a \in PollAddrs : Poll(a)
    \/ PlcToggle
    \/ Poller
    \/ \E a \in WriteAddrs : \E v \in WriteValues : WriteCall(1, a, v)
    \/ WriteAcquire(1)
    \/ WriteTxn(1)

Spec == Init /\ [][Next]_vars

\* FairSpec: the engine with every flag and poll, a device that stays up or
\* stays down, and one consumer thread writing a coil, with the scheduling
\* the threads get: the worker thread runs whenever it can, its
\* lock.acquire() returns if the lock is free again and again, and a write's
\* transaction ends (at the latest at its deadline).
FairNext ==
    \/ \E r \in Rates : SetRate(r)
    \/ SetDone
    \/ \E a \in PollAddrs : Poll(a)
    \/ Poller
    \/ \E v \in WriteValues : WriteCall(1, 1, v)
    \/ WriteAcquire(1)
    \/ WriteTxn(1)

FairSpec ==
    /\ Init /\ [][FairNext]_vars
    /\ WF_vars(LoopTop) /\ WF_vars(PausedSleep) /\ WF_vars(Slip)
    /\ WF_vars(Advance)
    /\ WF_vars(Plan) /\ WF_vars(PollerRead) /\ WF_vars(Finish)
    /\ SF_vars(PollerAcquire)
    /\ WF_vars(WriteTxn(1))

\* LockSpec: the engine constructed polling or paused and left so, a device
\* that stays up or stays down, and NumWriters consumer threads writing a
\* coil concurrently
LockNext ==
    \/ \E a \in PollAddrs : Poll(a)
    \/ Poller
    \/ \E w \in Writers : \E v \in WriteValues : WriteCall(w, 1, v)
    \/ \E w \in Writers : WriteAcquire(w)
    \/ \E w \in Writers : WriteTxn(w)

LockSpec == Init /\ [][LockNext]_vars

\* CacheSpec: the engine polling two coils that merge into one range with
\* an unregistered coil between them, and a holding register, while one
\* consumer thread writes the second coil
CachePollAddrs == {1, 3, 40001}
CacheWriteAddrs == {3}

CacheNext ==
    \/ \E r \in Rates : SetRate(r)
    \/ \E a \in CachePollAddrs : Poll(a)
    \/ Poller
    \/ \E a \in CacheWriteAddrs : \E v \in WriteValues : WriteCall(1, a, v)
    \/ WriteAcquire(1)
    \/ WriteTxn(1)

CacheSpec == Init /\ [][CacheNext]_vars

\* SlipSpec: the poll worker with an empty cache, coming to the top of its
\* loop on time or up to MaxLate seconds late, while a consumer pauses it,
\* changes its period and ends it
MaxLate == 7
SlipRates == {None, 2, 3}

SlipNext ==
    \/ \E r \in SlipRates : SetRate(r)
    \/ SetDone
    \/ \E e \in 0..MaxLate : late + e <= MaxLate /\ Wake(e)
    \/ PausedSleep
    \/ Slip
    \/ Advance
    \/ Plan
    \/ Finish

SlipSpec == Init /\ [][SlipNext]_vars

(***************************************************************************)
(* Direct calls of the planner, one per behaviour, on an engine that does  *)
(* nothing: shatter, merge, merge of shatter's output, and the poll        *)
(* worker's planning call on a set of cache keys.                          *)
(***************************************************************************)
\* arguments of shatter: short ranges with short limits, and ranges of the
\* size of the protocol's limits, at the ends of the bands
ShatterShort ==
    {[NoCall EXCEPT !.address = a, !.count = n, !.limit = l] :
        a \in {1, 9998, 40001}, n \in 0..5, l \in 0..3}
ShatterLong ==
    {[NoCall EXCEPT !.address = a, !.count = n, !.limit = l] :
        a \in {1, 10001, 19999, 40001, 49999, 99999, 100001},
        n \in {123, 124, 247, 300, 1968, 1969, 2092, 4000},
        l \in {0, 123, 1968}}
ShatterArgs == ShatterShort \cup ShatterLong

\* ranges given to merge: single addresses near each other and on both
\* sides of a 10000 boundary, ranges that overlap, contain one another or
\* are empty, and a range that crosses the boundary
MergeRanges ==
    {<<1, 1>>, <<2, 1>>, <<2, 2>>, <<1, 5>>, <<4, 0>>, <<7, 1>>,
     <<9998, 1>>, <<9999, 1>>, <<9999, 5>>, <<10001, 1>>,
     <<40001, 1>>, <<40005, 1>>, <<40010, 1>>}
MaxRanges == 3
\* the ranges of a set from the last to the first in sorted order
RECURSIVE Descending(_)
Descending(S) ==
    IF S = {} THEN << >>
    ELSE LET r == CHOOSE x \in S : \A y \in S \ {x} : RangeLess(y, x)
         IN  <<r>> \o Descending(S \ {r})
\* up to MaxRanges different ranges, given in sorted order or in the
\* opposite order
MergeInputs ==
    UNION {{sorted(Descending(S)), Descending(S)} :
              S \in {T \in SUBSET MergeRanges :
                         1 <= Cardinality(T) /\ Cardinality(T) <= MaxRanges}}
MergeReaches == {0, 1, 2, 5, 10}
MergeLimits == {0, 2, 123}

\* key sets of the cache and reaches of the engine for the planning call
PlanKeys ==
    {1, 2, 2000, 4000, 9999, 10000, 10500, 40001, 40300, 99999, 100001,
     165000}
PlanKeySets == {k \in SUBSET PlanKeys : Cardinality(k) <= MaxRanges}
PlanReaches == {1, 100, 500, 3000}

PlanCalls ==
    {[c EXCEPT !.fn = "shatter"] : c \in ShatterArgs}
    \cup
    {[c EXCEPT !.fn = "merge(shatter)"] : c \in ShatterArgs}
    \cup
    {[NoCall EXCEPT !.fn = "merge", !.ranges = s, !.reach = r, !.limit = l] :
        s \in MergeInputs, r \in MergeReaches, l \in MergeLimits}
    \cup
    {[NoCall EXCEPT !.fn = "plan", !.keys = k, !.reach = r] :
        k \in PlanKeySets, r \in PlanReaches}

PlanInit ==
    /\ EngineInit
    /\ rate = None
    /\ online = FALSE
    /\ plcUp = FALSE
    /\ call \in PlanCalls
    /\ ret = << >>

\* shatter( address, count, limit ), lines 151-170
CallShatter ==
    /\ call.fn = "shatter"
    /\ ret = << >>
    /\ ret' = <<shatter(call.address, call.count, call.limit)>>
    /\ UNCHANGED locals
    /\ UNCHANGED deadline
    /\ UNCHANGED <<done, rate, online, data, dev, plcUp, socket, lock, pc,
                   todo, succ, fail, polling, failing, wr, call>>

\* merge( ranges, reach, limit ), lines 173-201
CallMerge ==
    /\ call.fn = "merge"
    /\ ret = << >>
    /\ ret' = <<merge(call.ranges, call.reach, call.limit)>>
    /\ UNCHANGED locals
    /\ UNCHANGED deadline
    /\ UNCHANGED <<done, rate, online, data, dev, plcUp, socket, lock, pc,
                   todo, succ, fail, polling, failing, wr, call>>

\* merge( shatter( address, count, limit ), reach=1, limit=limit )
CallMergeShatter ==
    /\ call.fn = "merge(shatter)"
    /\ ret = << >>
    /\ ret' = <<merge(shatter(call.address, call.count, call.limit),
                      1, call.limit)>>
    /\ UNCHANGED locals
    /\ UNCHANGED deadline
    /\ UNCHANGED <<done, rate, online, data, dev, plcUp, socket, lock, pc,
                   todo, succ, fail, polling, failing, wr, call>>

\* the planning call of lines 271-272 on a key set
CallPlan ==
    /\ call.fn = "plan"
    /\ ret = << >>
    /\ ret' = <<PlanRanges(call.keys, call.reach)>>
    /\ UNCHANGED locals
    /\ UNCHANGED deadline
    /\ UNCHANGED <<done, rate, online, data, dev, plcUp, socket, lock, pc,
                   todo, succ, fail, polling, failing, wr, call>>

PlanNext ==
    \/ CallShatter
    \/ CallMerge
    \/ CallMergeShatter
    \/ CallPlan

PlanSpec == PlanInit /\ [][PlanNext]_vars

(***************************************************************************)
(* Direct calls of _read and _write, one per behaviour, on an engine that  *)
(* is paused: the addresses are the two ends of every band and their       *)
(* neighbours outside it.                                                  *)
(***************************************************************************)
ClassifyAddrs ==
    {0, 1, 2, 9999, 10000, 10001, 19999, 20000, 30000, 30001, 39999, 40000,
     40001, 99999, 100000, 100001, 165536, 165537, 300000, 300001, 365536,
     365537, 400000, 400001, 465536, 465537}
ClassifyCounts == {1, 2}
ClassifyValues ==
    {<<"int", <<4660>>>>, <<"list", <<4660, 22136>>>>, <<"list", <<1>>>>,
     <<"tuple", <<0, 1>>>>}

ClassifyCalls ==
    {[NoCall EXCEPT !.fn = "_read", !.address = a, !.count = n] :
        a \in ClassifyAddrs, n \in ClassifyCounts}
    \cup
    {[NoCall EXCEPT !.fn = "_write", !.address = a, !.value = v] :
        a \in ClassifyAddrs, v \in ClassifyValues}

ClassifyInit ==
    /\ EngineInit
    /\ rate = None
    /\ online = FALSE
    /\ call \in ClassifyCalls
    /\ ret = << >>

\* _read( address, count ) called directly, lines 365-416
DirectRead ==
    /\ call.fn = "_read"
    /\ ret = << >>
    /\ \E reply \in Replies(plcUp, <<call.address, call.count>>) :
          LET res == ReadResult(socket, plcUp, <<call.address, call.count>>,
                                reply)
          IN  /\ socket' = res.sock
              /\ ret' = <<res>>
    /\ UNCHANGED locals
    /\ _started' = TimeoutSetter(True, clock).started
    /\ _timeout' = TimeoutSetter(True, clock).timeout
    /\ waited' = 0
    /\ UNCHANGED clock
    /\ UNCHANGED <<done, rate, online, data, dev, plcUp, lock, pc, todo,
                   succ, fail, polling, failing, wr, call>>

\* _write( address, value ) called directly, lines 319-363
DirectWrite ==
    /\ call.fn = "_write"
    /\ ret = << >>
    /\ \E reply \in Replies(plcUp, <<call.address, Len(call.value[2])>>) :
          LET res == WriteResult(socket, plcUp, call.address, call.value,
                                 reply)
          IN  /\ socket' = res.sock
              /\ dev' = IF res.raised = "none"
                        THEN DeviceWrite(dev, res.request)
                        ELSE dev
              /\ ret' = <<res>>
    /\ UNCHANGED locals
    /\ _started' = TimeoutSetter(True, clock).started
    /\ _timeout' = TimeoutSetter(True, clock).timeout
    /\ waited' = 0
    /\ UNCHANGED clock
    /\ UNCHANGED <<done, rate, online, data, plcUp, lock, pc, todo,
                   succ, fail, polling, failing, wr, call>>

ClassifyNext ==
    \/ DirectRead
    \/ DirectWrite

ClassifySpec == ClassifyInit /\ [][ClassifyNext]_vars

(***************************************************************************)
(* Direct use of the client, ModbusTcpClientTimeout, on an engine that is  *)
(* paused: the timeout is assigned and queried, connect and _recv are      *)
(* called, and time passes between the calls and while a call waits.       *)
(***************************************************************************)
\* the last second of the clock
MaxTime == 6
\* what is assigned to client.timeout: None, True, 0 and durations
TimeoutArgs ==
    {NoValue, True, <<"int", <<0>>>>, <<"int", <<1>>>>, <<"int", <<2>>>>}

\* what connect or _recv gave back: the exception raised ("none": it
\* returned), the value returned, the timeout it computed for its wait
\* (None: it did not wait) and the time it was blocked
Outcome(raised, returned, timeout, blocked) ==
    [raised |-> raised, returned |-> returned, timeout |-> timeout,
     blocked |-> blocked]

TimeoutInit ==
    /\ EngineInit
    /\ rate = None
    /\ online = FALSE
    /\ call = NoCall
    /\ ret = << >>

\* a second passes outside connect and _recv
Elapse ==
    /\ clock < MaxTime
    /\ clock' = clock + 1
    /\ UNCHANGED <<_started, _timeout, waited>>
    /\ UNCHANGED locals
    /\ UNCHANGED <<done, rate, online, data, dev, plcUp, socket, lock, pc,
                   todo, succ, fail, polling, failing, wr, call, ret>>

\* client.timeout = v, lines 93-108
SetTimeout(v) ==
    /\ call' = [NoCall EXCEPT !.fn = "timeout =", !.value = v]
    /\ ret' = << >>
    /\ _started' = TimeoutSetter(v, clock).started
    /\ _timeout' = TimeoutSetter(v, clock).timeout
    /\ waited' = 0
    /\ UNCHANGED clock
    /\ UNCHANGED locals
    /\ UNCHANGED <<done, rate, online, data, dev, plcUp, socket, lock, pc,
                   todo, succ, fail, polling, failing, wr>>

\* client.timeout is read, lines 80-92
GetTimeout ==
    /\ call' = [NoCall EXCEPT !.fn = "timeout"]
    /\ ret' = <<TimeoutGetter(_started, _timeout, clock)>>
    /\ UNCHANGED deadline
    /\ UNCHANGED locals
    /\ UNCHANGED <<done, rate, online, data, dev, plcUp, socket, lock, pc,
                   todo, succ, fail, polling, failing, wr>>

\* client.connect(), lines 110-129: an open socket is kept; otherwise
\* create_connection is given the time that remains, and after w seconds,
\* no more than it was given, it has connected to a device that is up, or
\* it has failed and the client is closed
ClientConnect ==
    /\ call' = [NoCall EXCEPT !.fn = "connect"]
    /\ IF socket
       THEN /\ ret' = <<Outcome("none", TRUE, None, 0)>>
            /\ UNCHANGED <<socket, clock, waited>>
       ELSE LET timeout == TimeoutGetter(_started, _timeout, clock)
            IN  \E w \in 0..timeout : \E connected \in BOOLEAN :
                   /\ clock + w <= MaxTime
                   /\ connected => plcUp
                   /\ socket' = connected
                   /\ clock' = clock + w
                   /\ waited' = waited + w
                   /\ ret' = <<Outcome("none", connected, timeout, w)>>
    /\ UNCHANGED <<_started, _timeout>>
    /\ UNCHANGED locals
    /\ UNCHANGED <<done, rate, online, data, dev, plcUp, lock, pc,
                   todo, succ, fail, polling, failing, wr>>

\* a _recv that leaves the socket open when its wait expires
ClientRecvKeepingSocket ==
    /\ call' = [NoCall EXCEPT !.fn = "_recv"]
    /\ IF ~socket
       THEN /\ ret' = <<Outcome(RecvNoSocket, FALSE, None, 0)>>
            /\ UNCHANGED <<socket, clock, waited>>
       ELSE LET timeout == TimeoutGetter(_started, _timeout, clock)
            IN  \E w \in 0..timeout : \E readable \in BOOLEAN :
                   /\ clock + w <= MaxTime
                   /\ readable => plcUp
                   /\ ~readable => w = timeout
                   /\ socket' = socket
                   /\ clock' = clock + w
                   /\ waited' = waited + w
                   /\ ret' = <<Outcome(IF readable THEN "none"
                                       ELSE "ConnectionException",
                                       readable, timeout, w)>>
    /\ UNCHANGED <<_started, _timeout>>
    /\ UNCHANGED locals
    /\ UNCHANGED <<done, rate, online, data, dev, plcUp, lock, pc,
                   todo, succ, fail, polling, failing, wr>>

\* client._recv( size ), lines 131-148: without a socket it raises at
\* once; otherwise select is given the time that remains, and either the
\* socket is readable after w seconds, no more than select was given, and
\* the input is returned, or the wait expires, the client is closed and
\* ConnectionException is raised
ClientRecv ==
    /\ call' = [NoCall EXCEPT !.fn = "_recv"]
    /\ IF ~socket
       THEN /\ ret' = <<Outcome(RecvNoSocket, FALSE, None, 0)>>
            /\ UNCHANGED <<socket, clock, waited>>
       ELSE LET timeout == TimeoutGetter(_started, _timeout, clock)
            IN  \E w \in 0..timeout : \E readable \in BOOLEAN :
                   /\ clock + w <= MaxTime
                   /\ readable => plcUp
                   /\ ~readable => w = timeout
                   /\ socket' = readable
                   /\ clock' = clock + w
                   /\ waited' = waited + w
                   /\ ret' = <<Outcome(IF readable THEN "none"
                                       ELSE "ConnectionException",
                                       readable, timeout, w)>>
    /\ UNCHANGED <<_started, _timeout>>
    /\ UNCHANGED locals
    /\ UNCHANGED <<done, rate, online, data, dev, plcUp, lock, pc,
                   todo, succ, fail, polling, failing, wr>>

TimeoutNext ==
    \/ Elapse
    \/ \E v \in TimeoutArgs : SetTimeout(v)
    \/ GetTimeout
    \/ ClientConnect
    \/ ClientRecv
    \/ PlcToggle

TimeoutSpec == TimeoutInit /\ [][TimeoutNext]_vars


(***************************************************************************)
(* Transactions on the transport.                                          *)
(***************************************************************************)
\* the poll worker is inside the with block of line 273
PollerInTxn == pc = "read"
\* consumer thread w is inside the with block of line 316
WriterInTxn(w) == wr[w].pc = "txn"
\* the threads that have a transaction in progress
InTxn == {w \in Writers : WriterInTxn(w)}
\* the current cycle has finished at least one range and has more to read
BetweenRanges == pc = "acquire" /\ succ \cup fail # {}

\* C1: at most one Modbus transaction (a poller range read or a write) is
\* in progress on the transport at any instant, for every interleaving of
\* the poll worker and the writing threads; so no write is in its
\* transaction while a range read is in progress.
C1_OneTransaction ==
    Cardinality(InTxn) + (IF PollerInTxn THEN 1 ELSE 0) <= 1

\* C1 witness: a range read is in progress while two writes are waiting
C1_Witness ==
    /\ PollerInTxn
    /\ \E w1, w2 \in Writers :
          w1 # w2 /\ wr[w1].pc = "blocked" /\ wr[w2].pc = "blocked"

\* C5: a write that was invoked while a range read was executing has had
\* its transaction before the poll worker takes the lock for the next range
\* of the cycle.
C5_WriteBeforeNextRange ==
    [][(BetweenRanges /\ pc' = "read")
          => \A w \in Writers : ~(wr[w].pc = "blocked" /\ wr[w].during)]_vars


(***************************************************************************)
(* Health: online and the poll cycle.                                      *)
(***************************************************************************)
\* the step that ends a poll cycle (lines 302-312)
CycleEnds == pc = "finish" /\ pc' = "top"
\* the step in which the range read of lines 274-286 succeeds
ReadSucceeds == pc = "read" /\ pc' # "read" /\ Head(todo) \in succ'
\* the step in which the range read raises
ReadFails == pc = "read" /\ pc' # "read" /\ Head(todo) \notin succ'
\* a poll cycle that read at least one range has completed
CycleRecorded == polling \cup failing # {}

\* C2: in every reachable state, online is false if and only if the cache
\* is non-empty and the most recent poll cycle produced zero successful
\* ranges.  (Stated for the states in which a completed cycle has read
\* ranges, whose cache is therefore not empty.)
C2_OnlineIffLastCycle ==
    CycleRecorded => (online = FALSE <=> (DOMAIN data # {} /\ polling = {}))

\* C2 amended: when a poll cycle ends with a non-empty cache, online is
\* false if and only if that cycle produced zero successful ranges.
C2_OnlineAtCycleEnd ==
    [][(CycleEnds /\ DOMAIN data # {})
          => (online' = FALSE <=> polling' = {})]_vars

\* C2 witness: a cycle over a non-empty cache has ended with no successful
\* range and the engine is offline
C2_Witness ==
    pc = "top" /\ DOMAIN data # {} /\ failing # {} /\ polling = {} /\ ~online

\* C3: at the end of a poll cycle in which the cache is non-empty and no
\* range was read successfully, online is false whatever it was before;
\* while the cache is empty no step, and so no cycle, changes online.
C3_OfflineAfterFailedCycle ==
    [][/\ (CycleEnds /\ DOMAIN data # {} /\ succ = {}) => online' = FALSE
       /\ DOMAIN data = {} => online' = online]_vars

\* C3 witness: both registered ranges failed in the cycle that just ended
\* and the engine is offline
C3_Witness ==
    pc = "top" /\ Cardinality(failing) = 2 /\ polling = {} /\ ~online

\* C4: a range read that succeeds leaves online true in the same locked
\* step, with the values of the range stored; and online is true at the
\* end of every cycle that had a successful range read.
C4_OnlineOnSuccess ==
    [][/\ ReadSucceeds
            => /\ online' = TRUE
               /\ \A a \in Span(Head(todo)) \cap DOMAIN data :
                      data'[a] = {dev[a]}
       /\ (CycleEnds /\ succ # {}) => online' = TRUE]_vars

\* C4 witness: after a cycle in which every range failed, a range read has
\* succeeded and the engine is online before the cycle is over
C4_Witness ==
    /\ pc \in {"acquire", "read"}
    /\ failing # {} /\ polling = {}
    /\ succ # {} /\ online

\* C8: a range read that raises, whatever it raises, puts the range in
\* fail, releases the lock and goes on to the cycle's remaining ranges
\* without ending the worker; and the next cycle plans a read of every
\* registered address of a range that failed.
C8_ReadErrorsCaught ==
    [][/\ ReadFails
            => /\ Head(todo) \in fail'
               /\ todo' = Tail(todo)
               /\ pc' = (IF todo' = << >> THEN "finish" ELSE "acquire")
               /\ lock' = "free"
       /\ (pc = "plan" /\ pc' # "plan")
            => \A r \in failing : \A a \in Span(r) \cap DOMAIN data :
                   \E i \in 1..Len(todo') : a \in Span(todo'[i])]_vars

\* C8 witness: a range has failed in this cycle and the worker is about to
\* read the cycle's next range, one that failed in the previous cycle
C8_Witness ==
    /\ pc = "acquire"
    /\ fail # {}
    /\ Head(todo) \in failing

(***************************************************************************)
(* The outcomes of write.                                                  *)
(***************************************************************************)
\* consumer thread w's write has returned or raised
WriteEnded(w) == wr[w].pc = "idle" /\ wr[w].res # "none"
\* the address is one _write has a writer for
Writable(address) == Writer(address, FALSE) # "none"

\* C9: a write to an address in a status or input band, or in no band,
\* fails with the invalid-address error and sends no request, in every
\* transport state: the caller never gets PlcOffline for such an address.
C9_InvalidAddressAlways ==
    \A w \in Writers :
        (WriteEnded(w) /\ ~Writable(wr[w].addr))
            => (wr[w].res = "ParameterException" /\ ~wr[w].sent)

InCycle == pc \in {"plan", "acquire", "read", "finish"}
\* the worker thread has ended: _poller returned, or an exception left it
WorkerEnded == pc \in {"exited", "crashed"}

\* C6: if rate is set to paused and left paused, the worker eventually
\* starts no more read transactions; at the top of its loop, paused and not
\* done, it only sleeps and comes back to the top.
C6_PausedQuiesces ==
    /\ (<>[](rate = None)) => <>[](~InCycle)
    /\ [][/\ (pc = "top" /\ pc' # pc /\ rate = None /\ ~done) => pc' = "sleep"
          /\ (pc = "sleep" /\ pc' # pc) => pc' = "top"]_vars

\* C6 witness: the worker has polled before and is in its paused sleep
C6_Witness == rate = None /\ pc = "sleep" /\ polling # {}

Returned(fn) == call.fn = fn /\ ret # << >>

\* the band of a conventional address in the address table: the read
\* opcode and the band's low bound; no band gives "invalid"
ReadBand(a) ==
    CASE 1 <= a /\ a <= 9999           -> <<"ReadCoilsRequest", 1>>
      [] 10001 <= a /\ a <= 19999      -> <<"ReadDiscreteInputsRequest", 10001>>
      [] 100001 <= a /\ a <= 165536    -> <<"ReadDiscreteInputsRequest", 100001>>
      [] 30001 <= a /\ a <= 39999      -> <<"ReadInputRegistersRequest", 30001>>
      [] 300001 <= a /\ a <= 365536    -> <<"ReadInputRegistersRequest", 300001>>
      [] 40001 <= a /\ a <= 99999      -> <<"ReadHoldingRegistersRequest", 40001>>
      [] 400001 <= a /\ a <= 465536    -> <<"ReadHoldingRegistersRequest", 400001>>
      [] OTHER                         -> <<"invalid", 0>>

\* the writable band of a conventional address: "coil" or "register" and
\* the band's low bound
WriteBand(a) ==
    CASE 1 <= a /\ a <= 9999           -> <<"coil", 1>>
      [] 40001 <= a /\ a <= 99999      -> <<"register", 40001>>
      [] 400001 <= a /\ a <= 465536    -> <<"register", 400001>>
      [] OTHER                         -> <<"invalid", 0>>

\* C11: on a connected transport, a write to an address of 1..9999 issues
\* WriteSingleCoil or WriteMultipleCoils, and a write to an address of
\* 40001..99999 or 400001..465536 issues WriteSingleRegister or
\* WriteMultipleRegisters; the multiple form is chosen if and only if the
\* value is a list (a Python list or tuple); the request's zero-based
\* offset is the address minus the band's low bound, and the request
\* carries the value.
C11_WriteClassifier ==
    (/\ Returned("_write")
     /\ ret[1].raised # "PlcOffline"
     /\ WriteBand(call.address)[1] # "invalid")
        => /\ ret[1].sent
           /\ ret[1].request.fn =
                (IF WriteBand(call.address)[1] = "coil"
                 THEN (IF call.value[1] = "int"
                       THEN "WriteSingleCoilRequest"
                       ELSE "WriteMultipleCoilsRequest")
                 ELSE (IF call.value[1] = "int"
                       THEN "WriteSingleRegisterRequest"
                       ELSE "WriteMultipleRegistersRequest"))
           /\ ret[1].request.address + WriteBand(call.address)[2]
                = call.address
           /\ ret[1].request.value = call.value

\* C11 witness: write( 465536, [0x1234, 0x5678] ) has issued
\* WriteMultipleRegisters at the last offset of the extended band
C11_Witness ==
    /\ Returned("_write")
    /\ call.address = 465536
    /\ call.value = <<"list", <<4660, 22136>>>>
    /\ ret[1].sent
    /\ ret[1].request.fn = "WriteMultipleRegistersRequest"
    /\ ret[1].request.address = 65535

\* C12: on a connected transport, a read of a valid conventional address a
\* issues the read opcode of a's band with a zero-based offset such that
\* offset + the band's low bound = a; a read of an address in no band is
\* rejected as invalid, with no request issued.
C12_ReadClassifier ==
    (Returned("_read") /\ ret[1].raised # "PlcOffline")
        => IF ReadBand(call.address)[1] = "invalid"
           THEN ret[1].raised = "ParameterException" /\ ~ret[1].sent
           ELSE /\ ret[1].sent
                /\ ret[1].request.fn = ReadBand(call.address)[1]
                /\ ret[1].request.address + ReadBand(call.address)[2]
                     = call.address


(***************************************************************************)
(* The cache.                                                              *)
(***************************************************************************)
\* a step of a consumer thread's write
WriteStep == wr' # wr

\* C13: no step of a write, successful or not, changes a cache cell; the
\* value of a cell changes only in the step in which the poll worker stores
\* the result of a successful read of a range that contains its address.
C13_WritesLeaveCache ==
    [][/\ WriteStep => data' = data
       /\ \A a \in DOMAIN data :
             data'[a] # data[a] => (ReadSucceeds /\ a \in Span(Head(todo)))]_vars

\* C13 witness: a write of 1 to coil 1 has returned, the device holds 1 and
\* the cache still holds the 0 that was read before
C13_Witness ==
    /\ wr[1].res = "returned" /\ wr[1].addr = 1
    /\ 1 \in DOMAIN data
    /\ data[1] = {0}
    /\ dev[1] = 1

\* C14: the step in which a range is read successfully gives every
\* registered address a of the range the value the device holds at a (not
\* unknown, not the value of a neighbour), and the cell keeps that value
\* through the completion of the cycle, until the range of a is read again.
C14_ReadBackValue ==
    [][/\ ReadSucceeds
            => \A a \in Span(Head(todo)) \cap DOMAIN data :
                   data'[a] = {dev[a]}
       /\ \A r \in succ : \A a \in Span(r) \cap DOMAIN data :
              data'[a] = data[a]]_vars

\* C14 witness: the cycle that read coils 1..3 as one range has completed;
\* the cell of coil 3 holds the 0 the device held when the range was read
\* (the unregistered coil 2 read with it held 1), and a write has set the
\* device's coil 3 to 1 since
C14_Witness ==
    /\ pc = "top"
    /\ <<1, 3>> \in polling
    /\ data[1] = {0}
    /\ data[3] = {0}
    /\ dev[2] = 1
    /\ dev[3] = 1
    /\ wr[1].res = "returned"


(***************************************************************************)
(* The range planner.                                                      *)
(***************************************************************************)
\* the addresses covered by the ranges of a sequence
Covered(ranges) == UNION {Span(ranges[i]) : i \in 1..Len(ranges)}
\* every range of the sequence has at least one address
NonEmptyRanges(ranges) == \A i \in 1..Len(ranges) : ranges[i][2] >= 1
\* the range has addresses in one 10000-block only
InOneBlock(r) == r[2] >= 1 => r[1] \div 10000 = (r[1] + r[2] - 1) \div 10000

\* the scan as the merge rule states it: the next range (b, lb) of the
\* sorted input joins the accumulated (a, la), giving (a, b+lb-a), if and
\* only if b < a + la + reach and a and b have the same quotient by 10000;
\* otherwise (a, la) is emitted through shatter and (b, lb) starts anew
RECURSIVE RuleScan(_, _, _, _, _)
RuleScan(input, a, la, reach, limit) ==
    IF input = <<>>
    THEN shatter(a, la, limit)
    ELSE LET b  == Head(input)[1]
             lb == Head(input)[2]
         IN  IF b < a + la + reach /\ a \div 10000 = b \div 10000
             THEN RuleScan(Tail(input), a, b + lb - a, reach, limit)
             ELSE shatter(a, la, limit)
                      \o RuleScan(Tail(input), b, lb, reach, limit)

RuleMerge(ranges, reach, limit) ==
    RuleScan(Tail(sorted(ranges)), Head(sorted(ranges))[1],
             Head(sorted(ranges))[2], reach, limit)

\* C15: merge's output is the output of the scan of the sorted input in
\* which the next range (b, lb) is merged into the accumulated (a, la),
\* giving (a, b+lb-a), if and only if b < a + la + reach and a and b have
\* the same quotient by 10000, for every reach >= 0, reach = 0 included.
\* (Stated for inputs whose ranges all have a count of at least 1.)
C15_MergeRule ==
    (call.fn = "merge" /\ ret # << >> /\ NonEmptyRanges(call.ranges))
        => ret[1] = RuleMerge(call.ranges, call.reach, call.limit)

\* C15 amended: for input ranges with a count of at least 1, the next range
\* (b, lb) is merged into the accumulated (a, la), giving (a, b+lb-a), if
\* and only if b < a + la + r and a and b have the same quotient by 10000,
\* where r is reach for every reach >= 1 and r is 1 for reach = 0.
C15_MergeRuleReachOne ==
    (call.fn = "merge" /\ ret # << >> /\ NonEmptyRanges(call.ranges))
        => ret[1] = RuleMerge(call.ranges,
                              IF call.reach = 0 THEN 1 ELSE call.reach,
                              call.limit)

\* C15 witness: [(40010,1),(40005,1),(40001,1)] has given (40001,10) at
\* reach 5 and limit 123
C15_Witness ==
    /\ call.fn = "merge"
    /\ call.ranges = <<<<40010, 1>>, <<40005, 1>>, <<40001, 1>>>>
    /\ call.reach = 5
    /\ call.limit = 123
    /\ ret = << <<<<40001, 10>>>> >>

\* C16: for any input ranges, overlapping or contained ones included, and
\* any reach >= 0, the addresses covered by merge's output include every
\* address covered by the input.
C16_MergeCovers ==
    (call.fn = "merge" /\ ret # << >>)
        => Covered(call.ranges) \subseteq Covered(ret[1])

\* C17: for any input ranges and any reach, no range that merge outputs
\* has addresses in two different 10000-blocks.
C17_NoBoundarySpanned ==
    (call.fn = "merge" /\ ret # << >>)
        => \A i \in 1..Len(ret[1]) : InOneBlock(ret[1][i])

\* C17 amended: for any input ranges each of which has its addresses in
\* one 10000-block, and any reach, no range that merge outputs has addresses
\* in two different 10000-blocks.
C17_NoBoundarySpannedInBlocks ==
    (/\ call.fn = "merge" /\ ret # << >>
     /\ \A i \in 1..Len(call.ranges) : InOneBlock(call.ranges[i]))
        => \A i \in 1..Len(ret[1]) : InOneBlock(ret[1][i])

\* C17 witness: [(10001,1),(9999,1),(9998,1)] has given (9998,2) and
\* (10001,1) at reach 10
C17_Witness ==
    /\ call.fn = "merge"
    /\ call.ranges = <<<<10001, 1>>, <<9999, 1>>, <<9998, 1>>>>
    /\ call.reach = 10
    /\ ret = << <<<<9998, 2>>, <<10001, 1>>>> >>

\* the sequence of ranges tiles (address, count) with lengths 1..limit
Tiles(out, address, count, limit) ==
    /\ count = 0 <=> out = << >>
    /\ count > 0 =>
          /\ out[1][1] = address
          /\ out[Len(out)][1] + out[Len(out)][2] = address + count
    /\ \A i \in 1..(Len(out) - 1) : out[i + 1][1] = out[i][1] + out[i][2]
    /\ \A i \in 1..Len(out) : 1 <= out[i][2] /\ out[i][2] <= limit

\* C18: shatter( address, count, limit ) with count >= 0 and limit >= 1
\* yields sub-ranges that tile the input exactly: the first starts at
\* address, each next one starts where the previous one ended, the last
\* ends at address + count (the lengths sum to count), every length is
\* between 1 and limit, and count = 0 yields nothing.
C18_ShatterTiles ==
    (call.fn = "shatter" /\ ret # << >> /\ call.limit >= 1)
        => Tiles(ret[1], call.address, call.count, call.limit)

\* C18 witness: shatter( 9998, 5, 2 ) has given (9998,2), (10000,2),
\* (10002,1)
C18_Witness ==
    /\ call.fn = "shatter"
    /\ call.address = 9998 /\ call.count = 5 /\ call.limit = 2
    /\ ret = << <<<<9998, 2>>, <<10000, 2>>, <<10002, 1>>>> >>

\* the limit of the kind of a conventional address: 1968 for the bit
\* kinds (coils, discrete inputs), 123 for the register kinds, none (0)
\* for an address in no band
KindLimit(a) ==
    CASE ReadBand(a)[1] \in {"ReadCoilsRequest", "ReadDiscreteInputsRequest"}
            -> 1968
      [] ReadBand(a)[1] \in {"ReadInputRegistersRequest",
                             "ReadHoldingRegistersRequest"}
            -> 123
      [] OTHER -> 0

\* C19: without a limit, shatter tiles the range with pieces of 1968 (the
\* last one of what is left) for a start address in a coil or status band
\* and of 123 otherwise; the poll worker plans without a limit, and every range it
\* plans to read has a length of at most 1968 if its kind is a bit kind and
\* of at most 123 if its kind is a register kind.
C19_DefaultLimits ==
    /\ (call.fn = "shatter" /\ ret # << >> /\ call.limit = 0)
          => LET limit == IF KindLimit(call.address) = 1968
                          THEN 1968 ELSE 123
             IN  /\ Tiles(ret[1], call.address, call.count, limit)
                 /\ \A i \in 1..(Len(ret[1]) - 1) : ret[1][i][2] = limit
    /\ (call.fn = "plan" /\ ret # << >>)
          => \A i \in 1..Len(ret[1]) :
                KindLimit(ret[1][i][1]) # 0
                    => ret[1][i][2] <= KindLimit(ret[1][i][1])

\* C19 witness: the plan for the keys 40001 and 40300 at reach 3000 is
\* (40001,123), (40124,123), (40247,54)
C19_Witness ==
    /\ call.fn = "plan"
    /\ call.keys = {40001, 40300}
    /\ ret = << <<<<40001, 123>>, <<40124, 123>>, <<40247, 54>>>> >>

\* the conventional addresses of the seven bands
Bands ==
    {1..9999, 10001..19999, 30001..39999, 40001..99999, 100001..165536,
     300001..365536, 400001..465536}
\* every address of the range lies in one and the same band
InOneBand(address, count) ==
    count >= 1 =>
        \E band \in Bands : address \in band /\ (address + count - 1) \in band

\* C20: for any single range R and any limit, an absent limit included,
\* merge( shatter( R, limit ), reach=1, limit=limit ) yields exactly the
\* sequence of ranges shatter( R, limit ) yields.
C20_RoundTrip ==
    (call.fn = "merge(shatter)" /\ ret # << >>)
        => ret[1] = shatter(call.address, call.count, call.limit)

\* C20 amended: for any single range R and any given limit, and with an
\* absent limit for any single range R whose addresses all lie in one band,
\* merge( shatter( R, limit ), reach=1, limit=limit ) yields exactly the
\* sequence of ranges shatter( R, limit ) yields.
C20_RoundTripInBand ==
    (/\ call.fn = "merge(shatter)" /\ ret # << >>
     /\ (call.limit # 0 \/ InOneBand(call.address, call.count)))
        => ret[1] = shatter(call.address, call.count, call.limit)

\* C20 witness: without a limit, the holding registers 49999..50245, on
\* both sides of a 10000 boundary, have come back as the three pieces
\* of shatter
C20_Witness ==
    /\ call.fn = "merge(shatter)"
    /\ call.address = 49999 /\ call.count = 247 /\ call.limit = 0
    /\ ret = << <<<<49999, 123>>, <<50122, 123>>, <<50245, 1>>>> >>


(***************************************************************************)
(* The transport's deadline.                                               *)
(***************************************************************************)
Max0(x) == IF x > 0 THEN x ELSE 0
\* the step reads client.timeout
Queries == call'.fn = "timeout" /\ <<call', ret'>> # <<call, ret>>
\* the step is a call of connect, or of _recv
Called(fn) ==
    /\ call'.fn = fn
    /\ <<call', ret', waited', socket'>> # <<call, ret, waited, socket>>

\* C21: after the timeout is set to a duration d > 0 (or to True or 0,
\* which select the library's default as d) at time t0, every later query
\* at time t returns max(0, t0 + d - t): it is never negative, never more
\* than d, and never more than the query before it returned, until the
\* timeout is set again.
C21_RemainingTime ==
    [][/\ (Queries /\ _timeout # None)
            => /\ ret'[1] = Max0(_started + _timeout - clock)
               /\ ret'[1] >= 0
               /\ ret'[1] <= _timeout
       /\ (Queries /\ _timeout # None /\ call.fn = "timeout")
            => ret'[1] <= ret[1]]_vars

\* C22: when a _recv wait expires with no data, the socket is closed and
\* ConnectionException is raised, and that is the only way a _recv on an
\* open socket fails; the connect of the next transaction, finding no
\* socket, makes a new connection attempt with the time that remains.
C22_RecvTimeoutCloses ==
    [][/\ (Called("_recv") /\ socket)
            => \/ ret'[1].raised = "none" /\ socket'
               \/ /\ ret'[1].raised = "ConnectionException"
                  /\ ~socket'
                  /\ ret'[1].blocked = ret'[1].timeout
       /\ (Called("connect") /\ ~socket)
            => /\ ret'[1].timeout # None
               /\ ret'[1].returned = socket'
               /\ plcUp => \E w \in 0..ret'[1].timeout :
                              ENABLED (ClientConnect /\ socket'
                                       /\ clock' = clock + w)]_vars

\* C22 witness: a _recv under a deadline has timed out and the socket is
\* closed
C22_Witness ==
    /\ call.fn = "_recv"
    /\ ret # << >>
    /\ ret[1].raised = "ConnectionException"
    /\ ret[1].blocked > 0
    /\ _timeout # None
    /\ ~socket

\* C23: within one transaction begun with budget d, the time spent
\* blocked in connect and in all _recv waits together is at most d:
\* connect and each _recv wait are given the time max(0, t0 + d - t) that
\* remains when they start, which is 0 once the budget is used up, and
\* are blocked no longer than they were given.
C23_TransactionBudget ==
    /\ [](_timeout # None => waited <= _timeout)
    /\ [][((Called("connect") \/ Called("_recv"))
             /\ _timeout # None /\ ret'[1].timeout # None)
            => /\ ret'[1].timeout = Max0(_started + _timeout - clock)
               /\ ret'[1].blocked <= ret'[1].timeout]_vars

\* C24: _recv with no open socket raises ConnectionException, and no other
\* exception, without waiting.
C24_RecvWithoutSocket ==
    [][(Called("_recv") /\ ~socket)
          => /\ ret'[1].raised = "ConnectionException"
             /\ ret'[1].blocked = 0
             /\ clock' = clock]_vars


(***************************************************************************)
(* The poll cycle: what it reads, records and logs.                        *)
(***************************************************************************)
\* the worker takes a step from position p
WorkerAt(p) == pc = p /\ pc' # pc

\* C25: merge of an empty collection yields an empty sequence and does not
\* raise, so a poll cycle that finds the cache empty reads no range, issues
\* no transaction and completes normally: it goes on to its end and from
\* there to the top of the loop, recording nothing.
C25_EmptyCacheCycle ==
    [][/\ (WorkerAt("plan") /\ DOMAIN data = {})
            => /\ todo' = << >>
               /\ pc' = "finish"
               /\ UNCHANGED <<socket, lock, _started, dev>>
       /\ (WorkerAt("finish") /\ succ \cup fail = {})
            => /\ pc' = "top"
               /\ polling' = {}
               /\ failing' = {}
               /\ UNCHANGED <<socket, lock, _started, dev, data>>]_vars

\* C25 witness: a cycle that was started and planned has completed, having
\* read nothing, with the cache still empty
C25_Witness ==
    /\ pc = "top"
    /\ late < 0
    /\ DOMAIN data = {}
    /\ polling \cup failing = {}
    /\ _started = None
    /\ ~socket


\* C26: at each cycle start, reached at time now >= target with rate > 0,
\* slipped = floor((now - target) / rate) and the target is advanced by
\* exactly (slipped + 1) * rate, so the new target is strictly later than
\* now and at most rate later; and exactly one poll cycle runs per wake-up,
\* however many periods were missed.
C26_SlipArithmetic ==
    [][/\ (WorkerAt("slip") /\ rate # None /\ late >= 0)
            => slipped' = late \div rate
       /\ (WorkerAt("advance") /\ rate # None /\ late >= 0)
            => /\ late - late' = (slipped + 1) * rate
               /\ late' < 0
               /\ late' >= 0 - rate
               /\ pc' = "plan"
       /\ WorkerAt("plan") => pc' \in {"acquire", "finish"}
       /\ WorkerAt("finish") => pc' = "top"]_vars


\* pymodbus's ModbusException and its subclasses ParameterException and
\* ConnectionException
ModbusProtocolErrors ==
    {"ModbusException", "ParameterException", "ConnectionException"}
\* the failure of range r has been written to the log
FailureLogged(r) == LogLine("Failing", r) \in logged'

\* C27: a range whose read fails with a Modbus-protocol exception is logged
\* if and only if that exact (address, count) range was not in the
\* previous cycle's failing set; a failure with any other type of exception
\* is logged in every cycle.
C27_FailureLogging ==
    [][ReadFails
          => IF exc' \in ModbusProtocolErrors
             THEN FailureLogged(Head(todo)) <=> Head(todo) \notin failing
             ELSE FailureLogged(Head(todo))]_vars

\* C27 witness: the merged range (1,3), which failed in the cycle before,
\* has failed again with a Modbus exception and nothing was logged
C27_Witness ==
    /\ exc = "ModbusException"
    /\ <<1, 3>> \in fail
    /\ <<1, 3>> \in failing
    /\ logged = {}


\* the ranges of a sequence
Ranges(seq) == {seq[i] : i \in 1..Len(seq)}
\* the ranges the log line of the given kind was written for
LoggedAs(kind) == {m[2] : m \in {l \in logged' : l[1] = kind}}

\* C28: after every completed cycle, polling is exactly the set of ranges
\* read successfully in that cycle and failing exactly the set of ranges
\* whose read failed; the two are disjoint and their union is the ranges
\* planned for that cycle; and the ranges reported as no longer polling are
\* exactly the previous cycle's polling set minus this cycle's succ and
\* fail.  (A cycle starts with empty sets and its plan; each read moves one
\* planned range into succ if it returned and into fail if it raised; the
\* end of the cycle, with nothing left of the plan, records the two sets.)
C28_CycleSets ==
    /\ [](succ \cap fail = {} /\ Ranges(todo) \cap (succ \cup fail) = {})
    /\ [][/\ WorkerAt("plan")
               => /\ succ' \cup fail' = {}
                  /\ todo' = PlanRanges(DOMAIN data, Reach)
          /\ WorkerAt("read")
               => /\ succ' = succ \cup (IF exc' = "none" THEN {Head(todo)}
                                                          ELSE {})
                  /\ fail' = fail \cup (IF exc' # "none" THEN {Head(todo)}
                                                          ELSE {})
                  /\ Ranges(todo') = Ranges(todo) \ {Head(todo)}
          /\ CycleEnds
               => /\ todo = << >>
                  /\ polling' = succ
                  /\ failing' = fail
                  /\ polling' \cap failing' = {}
                  /\ LoggedAs("Ceasing") = (polling \ succ) \ fail]_vars

\* C28 witness: a cycle has completed in which the merged range (1,3) was
\* read and the holding register failed, and the range (1,1) of the cycle
\* before was reported as no longer polling
C28_Witness ==
    /\ pc = "top"
    /\ polling = {<<1, 3>>}
    /\ failing = {<<40001, 1>>}
    /\ LogLine("Ceasing", <<1, 1>>) \in logged


\* each range of the sequence has addresses, and ends before the next one
\* begins
Ascending(ranges) ==
    /\ \A i \in 1..Len(ranges) : ranges[i][2] >= 1
    /\ \A i \in 1..(Len(ranges) - 1) :
          ranges[i][1] + ranges[i][2] <= ranges[i + 1][1]
\* the ranges of the sequence that address a lies in
Holding(ranges, a) == {i \in 1..Len(ranges) : a \in Span(ranges[i])}

\* C29: in every cycle the ranges read, which are merge of one range of
\* length 1 per key of the cache as it is when the cycle plans, with the
\* engine's reach, are in strictly increasing address order and pairwise
\* disjoint, and every address of that snapshot lies in exactly one of
\* them.
C29_PlanCoversKeys ==
    (call.fn = "plan" /\ ret # << >>)
        => /\ Ascending(ret[1])
           /\ \A i, j \in 1..Len(ret[1]) :
                 i # j => Span(ret[1][i]) \cap Span(ret[1][j]) = {}
           /\ \A a \in call.keys : Cardinality(Holding(ret[1], a)) = 1

\* C29 witness: the coils 1 and 2000, within reach of each other, and a
\* holding register have been planned as three ranges: the coils' merged
\* range in two pieces, and the register
C29_Witness ==
    /\ call.fn = "plan"
    /\ call.keys = {1, 2000, 40001}
    /\ call.reach = 3000
    /\ ret = << <<<<1, 1968>>, <<1969, 32>>, <<40001, 1>>>> >>


\* C30: a range read that fails, for whatever reason, leaves every cell of
\* the cache as it was.
C30_FailedReadKeepsCache ==
    [][ReadFails => data' = data]_vars

\* C30 witness: the merged range (1,3), read in an earlier cycle, has
\* failed, and the cells of its addresses hold the values read before
C30_Witness ==
    /\ exc # "none"
    /\ <<1, 3>> \in fail
    /\ DOMAIN data = {1, 3, 40001}
    /\ data[1] # {}
    /\ data[3] # {}

(***************************************************************************)
(* C31: the mutex discipline of the worker and of write.                   *)
(***************************************************************************)
\* a thread waits for the lock: a write blocked at line 316 or the worker
\* at line 273
LockWaited ==
    \/ pc = "acquire"
    \/ \E w \in Writers : wr[w].pc = "blocked"

\* a thread that waits for the lock can take it, or the thread that holds
\* it can finish its transaction
LockProgress ==
    \/ lock = "free" /\ (ENABLED PollerAcquire
                           \/ \E w \in Writers : ENABLED WriteAcquire(w))
    \/ lock = "poller" /\ ENABLED PollerRead
    \/ lock = "writer" /\ \E w \in Writers : ENABLED WriteTxn(w)

\* C31: the lock is free after every range read of the worker and after
\* every write, whether the transaction returned or raised; the worker
\* holds the lock only during a range read, never while it sleeps, is
\* paused, plans or is between two ranges; whenever a thread waits for the
\* lock, it can take it or the holder can finish (no deadlock); and a
\* write called while the worker is not in a range read and no other write
\* is in its transaction gets the lock at once.
C31_MutexDiscipline ==
    /\ [](lock = "poller" <=> pc = "read")
    /\ [](lock = "writer" <=> \E w \in Writers : wr[w].pc = "txn")
    /\ [](LockWaited => LockProgress)
    /\ [][/\ (pc = "read" /\ pc' # "read") => lock' = "free"
           /\ \A w \in Writers :
                 /\ (wr[w].pc = "txn" /\ wr'[w].pc # "txn")
                       => lock' = "free"
                 /\ (/\ wr[w].pc = "idle"
                      /\ wr'[w].pc # "idle"
                      /\ pc # "read"
                      /\ \A v \in Writers : wr[v].pc # "txn")
                       => (wr'[w].pc = "txn" /\ lock' = "writer")]_vars

\* a write has ended with an error, the worker's latest step was a range
\* read that raised, and the lock is free
C31_Witness ==
    /\ exc # "none"
    /\ pc \in {"acquire", "finish"}
    /\ \E w \in Writers : wr[w].pc = "idle"
                            /\ wr[w].res \notin {"none", "returned"}
    /\ lock = "free"

(***************************************************************************)
(* C32: what ends the worker.                                              *)
(***************************************************************************)
\* C32: whatever the consumers assign to rate, None or a period, and
\* wherever the worker is in its loop when they do, between the test of
\* line 240 and the slip computation of line 251 included, the worker
\* raises nothing, and it has ended only if done is set.
C32_StopsOnlyOnDone ==
    /\ pc # "crashed"
    /\ pc = "exited" => done

====
